---- MODULE Spec2Model ----
(***************************************************************************)
(* Model of the proactive-message plugin: the interval scheduler           *)
(* (scheduler.py), the batch operation and its per-session loop (main.py)  *)
(* and the two-phase oracle client (message_analyzer.py).                  *)
(*                                                                         *)
(* Text is a sequence of one-character strings, so that strip() and the    *)
(* `in` substring test are computed, not assumed.  A session id is the     *)
(* sequence of its colon-delimited segments.                               *)
(***************************************************************************)
EXTENDS Integers, Sequences, FiniteSets, TLC

VARIABLES
    cfg,        \* the plugin configuration read at run time (config.py)
    store,      \* the conversation store: the user_id of each conversation
    scheduler,  \* SchedulerManager.scheduler: "none" or "started"
    jobs,       \* SchedulerManager.jobs: the ids of the jobs added, in order
    registered, \* the job ids held by the running AsyncIOScheduler
    instances,  \* the executor's count of running instances, per job id
    refused,    \* the job ids whose fire the running scheduler's executor refused since their last run began
    init_pc,    \* where ProactiveMsg.initialize() stands
    tasks,      \* the executions of _check_and_send_proactive_messages
    call,       \* a function of the plugin applied on its own: its arguments and result
    db,         \* the stored history of the conversation of one session
    run         \* MessageAnalyzer at work on that session, on its own

vars == <<cfg, store, scheduler, jobs, registered, instances, refused, init_pc, tasks, call, db, run>>

\* ------------------------------------------------------------------ bounds

\* The number of executions of the batch operation that may exist at once.
MaxTasks == 3

\* With debug_trigger_on_init set (two batches can be in flight at once) the
\* store holds at most this many private sessions.
MaxOverlapSessions == 1

\* The number of turns of the transcripts apply_context_limit is applied to.
MaxTurns == 6

\* The number of messages the stored history of the conversation grows to.
MaxStored == 8

\* ------------------------------------------------------------------- text

Whitespace == {" ", "\n", "\t"}

RECURSIVE LStrip(_)
LStrip(s) == IF s # <<>> /\ Head(s) \in Whitespace THEN LStrip(Tail(s)) ELSE s

RECURSIVE RStrip(_)
RStrip(s) ==
    IF s # <<>> /\ s[Len(s)] \in Whitespace
    THEN RStrip(SubSeq(s, 1, Len(s) - 1))
    ELSE s

\* str.strip()
Strip(s) == RStrip(LStrip(s))

\* `sub in s` for str
Contains(s, sub) ==
    \E i \in 1..(Len(s) - Len(sub) + 1) : SubSeq(s, i, i + Len(sub) - 1) = sub

MarkerYes == <<"^", "&", "Y", "E", "S", "&", "^">>
MarkerNo == <<"^", "&", "N", "O", "&", "^">>
\* the form the analysis prompt asks for (prompt_manager.py:71)
MarkerNoShort == <<"^", "&", "N", "O", "^">>

\* The completion_text values the oracle is modelled to return in phase 1.
DecisionReplies ==
    { <<>>,
      <<"o", "k">>,
      MarkerYes,
      <<" ">> \o MarkerYes \o <<"\n">>,
      MarkerNo,
      MarkerNoShort,
      MarkerNo \o <<" ">> \o MarkerYes }

\* The completion_text values the oracle is modelled to return in phase 2.
TopicReplies ==
    { <<>>,
      <<" ", "\n">>,
      <<"h", "i">>,
      <<" ", "h", "i", " ">> }

\* --------------------------------------------------------------- sessions

AdminSession == <<"qq", "FriendMessage", "root">>
UserSession == <<"qq", "FriendMessage", "bob">>
GroupSession == <<"qq", "GroupMessage", "g1", "root">>
ShortSession == <<"qq", "FriendMessage">>

\* context.get_config()["admins_id"]
admins_id == {"root"}

\* The stores of the model: what conversation_manager.get_conversations()
\* returns, duplicates included.
StoreLists ==
    { <<GroupSession, UserSession, UserSession>>,
      <<AdminSession, ShortSession, UserSession>> }

Sessions == {AdminSession, UserSession, GroupSession, ShortSession}

\* the private test without the test of the number of segments
_is_private_conversation_by_id_unsized(session_id) ==
    session_id[2] = "FriendMessage"

_is_private_conversation_by_id(session_id) ==
    IF Len(session_id) >= 3
    THEN session_id[2] = "FriendMessage"
    ELSE FALSE

\* the admin test with every session taken as an admin's
_is_admin_conversation_any(session_id) == TRUE

_is_admin_conversation(session_id) ==
    IF Len(session_id) >= 3
    THEN session_id[Len(session_id)] \in admins_id
    ELSE FALSE

\* ---------------------------------------------------------------- results

\* What a call gives its caller: a value, or an exception.  CancelledError
\* is not a subclass of Exception, so `except Exception` lets it through.
Ret(v) == [kind |-> "return", value |-> v]
Raise(e) == [kind |-> "raise", value |-> e]

IsException(r) == r.kind = "raise" /\ r.value = "Exception"
IsCancelled(r) == r.kind = "raise" /\ r.value = "CancelledError"

\* Optional values: None, or Some(v) whose value is Get(x).
None == <<>>
Some(v) == <<v>>
Get(x) == x[1]

\* ----------------------------------------------------------- environment

\* int(time.time()) at the recency check of a batch
Now == 100000

\* What _get_last_message_time may find for a session.
LastActivity ==
    {None} \cup {Some(t) : t \in {0, Now, Now - 5, Now - 1800, Now - 4000}}

UserTurn == [role |-> "user", content |-> "hello", dict |-> TRUE]
AgentTurn == [role |-> "assistant", content |-> "hi there", dict |-> TRUE]
\* an element of the stored JSON array that is not an object
JunkTurn == [role |-> "", content |-> "", dict |-> FALSE]

\* What _get_message_history may return.
Histories ==
    { <<>>,
      <<UserTurn, AgentTurn>>,
      <<JunkTurn>> }

\* What `await provider.text_chat(...)` may give: no response object, a
\* response with a completion_text, an exception, or a cancellation.
ChatOutcomes(replies) ==
    {Ret(None), Raise("Exception"), Raise("CancelledError")}
        \cup {Ret(Some(r)) : r \in replies}

\* context.get_using_provider(): none, one whose meta() raises, or a working one
Providers == {"none", "broken", "active"}

\* ------------------------------------------------------ message_analyzer

_parse_time_threshold(threshold) ==
    CASE threshold = "1min" -> 60
      [] threshold = "5min" -> 5 * 60
      [] threshold = "10min" -> 10 * 60
      [] threshold = "30min" -> 30 * 60
      [] threshold = "1hour" -> 60 * 60
      [] OTHER -> 30 * 60

\* the gate with every session taken as quiet
_has_recent_message_never(o, no_message_threshold, current_timestamp) ==
    IF o.kind = "raise"
    THEN IF IsException(o) THEN Ret(FALSE) ELSE o
    ELSE Ret(FALSE)

\* o: what `await self._get_last_message_time(session_id)` gave
\* current_timestamp: int(time.time())
_has_recent_message(o, no_message_threshold, current_timestamp) ==
    IF o.kind = "raise"
    THEN IF IsException(o) THEN Ret(FALSE) ELSE o
    ELSE LET last_message_timestamp == o.value
         IN  IF last_message_timestamp = None \/ Get(last_message_timestamp) = 0
             THEN Ret(FALSE)
             ELSE LET time_diff == current_timestamp - Get(last_message_timestamp)
                  IN  Ret(time_diff < no_message_threshold)

\* `not message_history` taken as never true
NoHistoryNever(message_history) == FALSE

\* `not message_history` (message_analyzer.py:52, 80)
NoHistory(message_history) == message_history = <<>>

\* the prompt builders read msg.get(...) of every turn: a turn that is not
\* an object raises AttributeError
BuildPromptRaises(history) == \E i \in 1..Len(history) : ~history[i].dict

\* the parse with an unrecognized reply taken as a yes
ParseDecisionFailOpen(response) ==
    IF response = None
    THEN FALSE
    ELSE IF Get(response) = <<>>
         THEN FALSE
         ELSE LET response_text == Strip(Get(response))
              IN  IF Contains(response_text, MarkerYes)
                  THEN TRUE
                  ELSE IF Contains(response_text, MarkerNo)
                       THEN FALSE
                       ELSE TRUE

\* the parse with the two marker tests in the other order
ParseDecisionNoFirst(response) ==
    IF response = None
    THEN FALSE
    ELSE IF Get(response) = <<>>
         THEN FALSE
         ELSE LET response_text == Strip(Get(response))
              IN  IF Contains(response_text, MarkerNo)
                  THEN FALSE
                  ELSE IF Contains(response_text, MarkerYes)
                       THEN TRUE
                       ELSE FALSE

\* The parse of a phase-1 response (message_analyzer.py:387-405).
ParseDecision(response) ==
    IF response = None
    THEN FALSE
    ELSE IF Get(response) = <<>>
         THEN FALSE
         ELSE LET response_text == Strip(Get(response))
              IN  IF Contains(response_text, MarkerYes)
                  THEN TRUE
                  ELSE IF Contains(response_text, MarkerNo)
                       THEN FALSE
                       ELSE FALSE

\* o: what `await provider.text_chat(...)` gave in phase 1
_call_llm_for_decision(o) ==
    IF o.kind = "return"
    THEN Ret(ParseDecision(o.value))
    ELSE IF IsCancelled(o)
         THEN Ret(FALSE)
         ELSE IF IsException(o) THEN Ret(FALSE) ELSE o

\* the parse without the strip()
ParseTopicUnstripped(response) ==
    IF response = None \/ Get(response) = <<>>
    THEN None
    ELSE Some(Get(response))

\* The parse of a phase-2 response (message_analyzer.py:436-443).
ParseTopic(response) ==
    IF response = None \/ Get(response) = <<>>
    THEN None
    ELSE Some(Strip(Get(response)))

\* o: what `await provider.text_chat(...)` gave in phase 2
_call_llm_for_topic(o) ==
    IF o.kind = "return"
    THEN Ret(ParseTopic(o.value))
    ELSE IF IsException(o) THEN Ret(None) ELSE o

\* A step of a coroutine ends at its next await, or with its result.
Await(at) == [kind |-> "await", value |-> at]

\* a coroutine's body without its `except Exception` clause
ExceptNothing(r, default) == r

\* `except Exception: return <default>` around a coroutine's body
ExceptReturn(r, default) == IF IsException(r) THEN Ret(default) ELSE r

\* should_send_proactive_message, resumed from each of its awaits.
\* o: what the await gave; provider: what get_using_provider() gives next.
should_send_proactive_message(at, o, provider, no_message_threshold) ==
    LET body ==
        CASE at = "recent" ->
               LET has_recent_message == _has_recent_message(o, no_message_threshold, Now)
               IN  IF has_recent_message.kind = "raise"
                   THEN has_recent_message
                   ELSE IF has_recent_message.value
                        THEN Ret(FALSE)
                        ELSE Await("history")
          [] at = "history" ->
               IF o.kind = "raise"
               THEN o
               ELSE IF NoHistory(o.value) THEN Ret(FALSE) ELSE Await("prompt")
          [] at = "prompt" ->
               IF o.kind = "raise"
               THEN o
               ELSE IF BuildPromptRaises(o.value)
                    THEN Raise("Exception")
                    ELSE IF provider = "none"
                         THEN Ret(FALSE)
                         ELSE IF provider = "broken"
                              THEN _call_llm_for_decision(Raise("Exception"))
                              ELSE Await("decision")
          [] at = "decision" -> _call_llm_for_decision(o)
    IN  ExceptReturn(body, FALSE)

\* get_proactive_topic, resumed from each of its awaits.
get_proactive_topic(at, o, provider) ==
    LET body ==
        CASE at = "topic_history" ->
               IF o.kind = "raise"
               THEN o
               ELSE IF NoHistory(o.value)
                    THEN Ret(None)
                    ELSE IF BuildPromptRaises(o.value)
                         THEN Raise("Exception")
                         ELSE IF provider = "none"
                              THEN Ret(None)
                              ELSE IF provider = "broken"
                                   THEN _call_llm_for_topic(Raise("Exception"))
                                   ELSE Await("topic")
          [] at = "topic" -> _call_llm_for_topic(o)
    IN  ExceptReturn(body, None)

\* ------------------------------------------------------------------ main

SkipNotAdmin == "not an admin session (admin_only)"
SkipDeclined == "the LLM judged that no message is needed"
SkipNoTopic == "no valid topic generated"
SkipError == "error while processing"
NoReason == ""

\* The await a task was last resumed from, the session it was for, what the
\* await gave and the awaits made for that session up to it (kept for the two
\* oracle calls, for an await that raised and for a gate that closed).
NoStep ==
    [at |-> "", session_id |-> None, o |-> [kind |-> "none", value |-> None],
     awaited |-> {}]

\* A slot that holds no execution of the batch operation.  Beside the locals
\* of the coroutine a task records what it did: the sessions its loop entered
\* (visited) and how many times (entries), what should_send_proactive_message returned for a session
\* (decided), the sessions get_proactive_topic was called for (topic_phase),
\* the topic _send_proactive_message was called with (handed), the sessions
\* send_by_session was called for (sunk), the coroutines an Exception left
\* (escaped), and the awaits made so far for the session of the current
\* iteration (awaited).
IdleTask ==
    [ pc |-> "idle", origin |-> "", job |-> 0, cancel |-> FALSE,
      discovered |-> {}, conversations |-> <<>>, visited |-> {},
      entries |-> [s \in Sessions |-> 0],
      session_id |-> None, topic |-> None,
      sessions_to_send |-> {},
      sessions_to_skip |-> [s \in Sessions |-> NoReason],
      last |-> NoStep,
      decided |-> [s \in Sessions |-> None],
      topic_phase |-> {},
      handed |-> [s \in Sessions |-> None],
      sunk |-> {}, escaped |-> {}, awaited |-> {} ]

\* An execution of _check_and_send_proactive_messages at its first await,
\* `await self._get_private_conversations()`.
NewTask(origin, job) ==
    [IdleTask EXCEPT !.pc = "discover", !.origin = origin, !.job = job]

Active(tk) == tk.pc \notin {"idle", "returned", "cancelled", "raised"}
Finished(tk) == tk.pc \in {"returned", "cancelled", "raised"}

Range(q) == {q[i] : i \in DOMAIN q}

\* The user_id of the conversations that pass _is_private_conversation_by_id,
\* in the order of the store: the ids private_sessions.add() is called with.
PrivateIds(conversations) ==
    SelectSeq(conversations, _is_private_conversation_by_id)

\* the ids collected in a list, every one kept
AllIds(ids) == {ids}

\* list(private_sessions) of the set the ids were added to: every id of the
\* set once, in an order the set's hashing decides.
UniqueIds(ids) ==
    {result \in [1..Cardinality(Range(ids)) -> Range(ids)] : Range(result) = Range(ids)}

\* o: what `await conversation_manager.get_conversations()` gave.  The
\* results the call can have.
_get_private_conversations(o) ==
    IF o.kind = "raise"
    THEN {ExceptReturn(o, <<>>)}
    ELSE {Ret(result) : result \in UniqueIds(PrivateIds(o.value))}

\* _call_main_bot_llm: o is what its awaits (the persona, then text_chat) gave
_call_main_bot_llm(o) ==
    LET body ==
        IF o.kind = "raise"
        THEN o
        ELSE IF o.value = None \/ Get(o.value) = <<>>
             THEN Ret(None)
             ELSE Ret(Some(Strip(Get(o.value))))
    IN  ExceptReturn(body, None)

Truthy(x) == x # None /\ Get(x) # <<>>

\* _send_proactive_message, from its call and resumed from each of its awaits.
\* adapter: whether _get_platform_adapter finds one.
_send_proactive_message(at, o, provider, adapter) ==
    LET body ==
        CASE at = "start" ->
               IF provider = "active" THEN Await("main_llm") ELSE Ret(None)
          [] at = "main_llm" ->
               LET final_reply == _call_main_bot_llm(o)
               IN  IF final_reply.kind = "raise"
                   THEN final_reply
                   ELSE IF ~Truthy(final_reply.value)
                        THEN Ret(None)
                        ELSE IF adapter THEN Await("send") ELSE Ret(None)
          [] at = "send" -> IF o.kind = "raise" THEN o ELSE Ret(None)
    IN  ExceptReturn(body, None)

\* a batch that starts over where it should end
FinishRestart(tk, r) == NewTask(tk.origin, tk.job)

\* The coroutine ends: with its value, or with the exception that left it.
\* `except Exception` around the whole batch (main.py:165) logs and returns.
Finish(tk, r) ==
    IF IsCancelled(r)
    THEN [tk EXCEPT !.pc = "cancelled"]
    ELSE IF IsException(ExceptReturn(r, None))
         THEN [tk EXCEPT !.pc = "raised"]
         ELSE [tk EXCEPT !.pc = "returned"]

\* a skip that records nothing
SkipUnrecorded(tk, reason) == tk

Skip(tk, reason) ==
    [tk EXCEPT !.sessions_to_skip[Get(tk.session_id)] = reason]

\* The pipeline of the session of this iteration suspends at the await `at`.
Goto(tk, at) ==
    [tk EXCEPT !.pc = at, !.awaited = @ \cup {at}]

\* The for loop from the top of an iteration to its next await, over what
\* is left of the list _get_private_conversations returned.
RECURSIVE LoopHead(_, _)
LoopHead(tk0, admin_only) ==
    LET tk == [tk0 EXCEPT !.session_id = None, !.topic = None, !.awaited = {}]
    IN  IF tk.conversations = <<>>
        THEN {Finish(tk, Ret(None))}
        ELSE LET s == Head(tk.conversations)
                 t1 == [tk EXCEPT !.conversations = Tail(@),
                                  !.visited = @ \cup {s},
                                  !.entries[s] = @ + 1,
                                  !.session_id = Some(s)]
             IN  IF admin_only /\ ~_is_admin_conversation(s)
                 THEN LoopHead(Skip(t1, SkipNotAdmin), admin_only)
                 ELSE {Goto(t1, "recent")}

\* `except Exception` of the loop body (main.py:149-152): an exception of one
\* session is recorded and the loop goes on; a CancelledError leaves the batch.
LoopExcept(tk, r, admin_only) ==
    IF IsException(r)
    THEN LoopHead(Skip(tk, SkipError), admin_only)
    ELSE {Finish(tk, r)}

\* a delivery that is tried again when it failed
AfterSendRetry(tk, r, admin_only) ==
    CASE r.kind = "await" -> {Goto(tk, r.value)}
      [] r.kind = "return" -> LoopHead(tk, admin_only)
      [] OTHER -> {Goto(tk, "main_llm")}

\* main.py:254 called at main.py:141, and its continuation.
AfterSend(tk, r, admin_only) ==
    CASE r.kind = "await" -> {Goto(tk, r.value)}
      [] r.kind = "return" -> LoopHead(tk, admin_only)
      [] OTHER ->
           LoopExcept([tk EXCEPT !.escaped = @ \cup
                          IF IsException(r) THEN {"_send_proactive_message"} ELSE {}],
                      r, admin_only)

\* main.py:135-145 without the `if topic:` test
AfterTopicUntested(tk, r, provider, admin_only) ==
    CASE r.kind = "await" -> {Goto(tk, r.value)}
      [] r.kind = "return" ->
           LET topic == r.value
               session_id == Get(tk.session_id)
           IN  AfterSend(
                   [tk EXCEPT !.topic = topic,
                              !.sessions_to_send = @ \cup {session_id},
                              !.handed[session_id] = topic],
                   _send_proactive_message("start", Ret(None), provider, FALSE),
                   admin_only)
      [] OTHER ->
           LoopExcept([tk EXCEPT !.escaped = @ \cup
                          IF IsException(r) THEN {"get_proactive_topic"} ELSE {}],
                      r, admin_only)

\* main.py:135-145: the result of get_proactive_topic and what follows it.
AfterTopic(tk, r, provider, admin_only) ==
    CASE r.kind = "await" -> {Goto(tk, r.value)}
      [] r.kind = "return" ->
           LET topic == r.value
               session_id == Get(tk.session_id)
           IN  IF Truthy(topic)
               THEN AfterSend(
                        [tk EXCEPT !.topic = topic,
                                   !.sessions_to_send = @ \cup {session_id},
                                   !.handed[session_id] = topic],
                        _send_proactive_message("start", Ret(None), provider, FALSE),
                        admin_only)
               ELSE LoopHead(Skip(tk, SkipNoTopic), admin_only)
      [] OTHER ->
           LoopExcept([tk EXCEPT !.escaped = @ \cup
                          IF IsException(r) THEN {"get_proactive_topic"} ELSE {}],
                      r, admin_only)

\* main.py:129-148 without the `if should_send:` test
AfterShouldSendUntested(tk, r, admin_only) ==
    CASE r.kind = "await" -> {Goto(tk, r.value)}
      [] r.kind = "return" ->
           LET should_send == r.value
               session_id == Get(tk.session_id)
           IN  {Goto([tk EXCEPT !.decided[session_id] = Some(should_send),
                                !.topic_phase = @ \cup {session_id}],
                     "topic_history")}
      [] OTHER ->
           LoopExcept([tk EXCEPT !.escaped = @ \cup
                          IF IsException(r) THEN {"should_send_proactive_message"} ELSE {}],
                      r, admin_only)

\* main.py:129-148: the result of should_send_proactive_message and what
\* follows it.
AfterShouldSend(tk, r, admin_only) ==
    CASE r.kind = "await" -> {Goto(tk, r.value)}
      [] r.kind = "return" ->
           LET should_send == r.value
               session_id == Get(tk.session_id)
               t1 == [tk EXCEPT !.decided[session_id] = Some(should_send)]
           IN  IF should_send
               THEN {Goto([t1 EXCEPT !.topic_phase = @ \cup {session_id}],
                          "topic_history")}
               ELSE LoopHead(Skip(t1, SkipDeclined), admin_only)
      [] OTHER ->
           LoopExcept([tk EXCEPT !.escaped = @ \cup
                          IF IsException(r) THEN {"should_send_proactive_message"} ELSE {}],
                      r, admin_only)

\* ------------------------------------------------------------- scheduler

\* add_job(..., max_instances=2, ...)
max_instances_two == 1 + 1

\* add_job(..., max_instances=1, ...)
max_instances == 1

TaskIds == 1..MaxTasks

\* initialize() awaits its batch in slot 1; the executor's runs take the
\* lowest free slot of the others.
EagerSlot == 1

FreeSlots == {t \in TaskIds \ {EagerSlot} : tasks[t].pc = "idle"}

NextSlot == CHOOSE t \in FreeSlots : \A u \in FreeSlots : t <= u

InstanceCount(job_id) ==
    IF job_id \in DOMAIN instances THEN instances[job_id] ELSE 0

EagerJob == -1

PrivateSessions(conversations) == Range(PrivateIds(conversations))

\* MessageAnalyzer is not at work on a session on its own.
NoRun == [pc |-> "idle"]

\* No function is applied on its own.
NoCall == [fn |-> "", args |-> <<>>, done |-> FALSE, result |-> <<>>]

Init ==
    /\ cfg \in [ admin_only : BOOLEAN,
                 debug_trigger_on_init : BOOLEAN,
                 no_message_threshold : {"30min"} ]
    /\ store \in StoreLists
    /\ cfg.debug_trigger_on_init =>
           Cardinality(PrivateSessions(store)) <= MaxOverlapSessions
    /\ scheduler = "none"
    /\ jobs = <<>>
    /\ registered = {}
    /\ instances = <<>>
    /\ refused = {}
    /\ init_pc = "new"
    /\ tasks = [t \in TaskIds |-> IdleTask]
    /\ call = NoCall
    /\ db = <<>>
    /\ run = NoRun

\* SchedulerManager.add_job: the id it gives the job it registers
NewJobId == Len(jobs)

\* ProactiveMsg.initialize() up to its await of the eager batch:
\* scheduler.start(), scheduler.add_job(...), and with debug_trigger_on_init
\* the first step of `await self._check_and_send_proactive_messages()`.
Initialize ==
    /\ init_pc = "new"
    /\ scheduler' = "started"
    /\ registered' = registered \cup {NewJobId}
    /\ jobs' = Append(jobs, NewJobId)
    /\ IF cfg.debug_trigger_on_init
       THEN /\ tasks' = [tasks EXCEPT ![EagerSlot] = NewTask("eager", EagerJob)]
            /\ init_pc' = "await_batch"
       ELSE /\ tasks' = tasks
            /\ init_pc' = "done"
    /\ UNCHANGED <<cfg, store, instances, refused, call, db, run>>

\* initialize() after its await: the batch returned, raised (logged at
\* main.py:89) or was cancelled (the CancelledError leaves initialize too).
InitializeResume(t) ==
    /\ init_pc = "await_batch"
    /\ tasks[t].origin = "eager"
    /\ Finished(tasks[t])
    /\ init_pc' = IF tasks[t].pc = "cancelled" THEN "cancelled" ELSE "done"
    /\ tasks' = [tasks EXCEPT ![t] = IdleTask]
    /\ UNCHANGED <<cfg, store, scheduler, jobs, registered, instances, refused, call, db, run>>

\* The interval trigger of a job the running AsyncIOScheduler holds fires.
\* The executor starts a run unless the job already has max_instances runs,
\* and then only logs.
TimerFire(job_id) ==
    /\ job_id \in registered
    /\ IF InstanceCount(job_id) >= max_instances
       THEN /\ refused' = refused \cup {job_id}
            /\ UNCHANGED <<instances, tasks>>
       ELSE /\ FreeSlots # {}
            /\ tasks' = [tasks EXCEPT ![NextSlot] = NewTask("timer", job_id)]
            /\ instances' =
                   [j \in DOMAIN instances \cup {job_id} |->
                       IF j = job_id THEN InstanceCount(j) + 1 ELSE instances[j]]
            /\ refused' = refused \ {job_id}
    /\ UNCHANGED <<cfg, store, scheduler, jobs, registered, init_pc, call, db, run>>

\* the done-callback of a run that starts the run of a fire it had refused
ExecutorCallbackQueued(t) ==
    /\ tasks[t].origin = "timer"
    /\ Finished(tasks[t])
    /\ IF tasks[t].job \in refused
       THEN /\ tasks' = [tasks EXCEPT ![t] = NewTask("timer", tasks[t].job)]
            /\ UNCHANGED instances
       ELSE /\ instances' = [instances EXCEPT ![tasks[t].job] = @ - 1]
            /\ tasks' = [tasks EXCEPT ![t] = IdleTask]
    /\ UNCHANGED <<cfg, store, scheduler, jobs, registered, refused, init_pc, call, db, run>>

\* The executor's done-callback of a run: the job has one instance less.
ExecutorCallback(t) ==
    /\ tasks[t].origin = "timer"
    /\ Finished(tasks[t])
    /\ instances' = [instances EXCEPT ![tasks[t].job] = @ - 1]
    /\ tasks' = [tasks EXCEPT ![t] = IdleTask]
    /\ UNCHANGED <<cfg, store, scheduler, jobs, registered, refused, init_pc, call, db, run>>

\* stop() that drops its reference to the scheduler without shutting it down
TerminateNoShutdown ==
    /\ scheduler = "started"
    /\ scheduler' = "none"
    /\ UNCHANGED <<cfg, store, jobs, registered, instances, refused, init_pc, tasks,
                   call, db, run>>

\* ProactiveMsg.terminate() -> SchedulerManager.stop(): the scheduler shuts
\* down, which stops the timer and cancels the runs the executor still holds.
Terminate ==
    /\ scheduler = "started"
    /\ scheduler' = "none"
    /\ registered' = {}
    /\ refused' = {}
    /\ tasks' = [t \in TaskIds |->
                   IF tasks[t].origin = "timer" /\ Active(tasks[t])
                   THEN [tasks[t] EXCEPT !.cancel = TRUE]
                   ELSE tasks[t]]
    /\ UNCHANGED <<cfg, store, jobs, instances, init_pc, call, db, run>>

\* ------------------------------------------------- the batch, step by step

\* What an await gives: a cancelled task gets CancelledError there.
Outcomes(tk, normal) == IF tk.cancel THEN {Raise("CancelledError")} ELSE normal

Record(tk, o) ==
    [at |-> tk.pc, session_id |-> tk.session_id, o |-> o, awaited |-> tk.awaited]

Resume(tk, o) ==
    [tk EXCEPT !.cancel = FALSE,
               !.last = IF tk.pc \in {"decision", "topic"} \/ o.kind = "raise"
                        THEN Record(tk, o)
                        ELSE NoStep]

Threshold == _parse_time_threshold(cfg.no_message_threshold)

\* Resumed from an await of a gate of should_send_proactive_message: the
\* step is kept for a last-activity time that was read and for a transcript
\* that came back empty.
ResumeGate(tk, o, keep) ==
    IF keep
    THEN [Resume(tk, o) EXCEPT !.last = Record(tk, o)]
    ELSE Resume(tk, o)

Step(t, next) ==
    /\ tasks' = [tasks EXCEPT ![t] = next]
    /\ UNCHANGED <<cfg, store, scheduler, jobs, registered, instances, refused, init_pc, call, db, run>>

\* main.py:105: `await self._get_private_conversations()` completes.
StoreListed(t) ==
    /\ tasks[t].pc = "discover"
    /\ \E o \in Outcomes(tasks[t], {Ret(store), Raise("Exception")}) :
         LET tk == Resume(tasks[t], o)
         IN  \E r \in _get_private_conversations(o) :
               \E next \in
                   IF r.kind = "return"
                   THEN LoopHead([tk EXCEPT !.discovered = Range(r.value),
                                            !.conversations = r.value],
                                 cfg.admin_only)
                   ELSE {Finish(tk, r)} :
                 Step(t, next)

\* message_analyzer.py:45: `await self._has_recent_message(session_id)` completes.
RecentChecked(t) ==
    /\ tasks[t].pc = "recent"
    /\ \E o \in Outcomes(tasks[t], {Ret(x) : x \in LastActivity}) :
         LET tk == ResumeGate(tasks[t], o, o.kind = "return")
             r == should_send_proactive_message("recent", o, "active", Threshold)
         IN  \E next \in AfterShouldSend(tk, r, cfg.admin_only) : Step(t, next)

\* message_analyzer.py:51: `await self._get_message_history(session_id)` completes.
HistoryFetched(t) ==
    /\ tasks[t].pc = "history"
    /\ \E o \in Outcomes(tasks[t], {Ret(h) : h \in Histories}) :
         LET tk == ResumeGate(tasks[t], o, o.kind = "return" /\ o.value = <<>>)
             r == should_send_proactive_message("history", o, "active", Threshold)
         IN  \E next \in AfterShouldSend(tk, r, cfg.admin_only) : Step(t, next)

\* message_analyzer.py:59: `await self._build_analysis_prompt(session_id)`
\* completes, and _call_llm_for_decision runs up to its text_chat.
PromptBuilt(t) ==
    /\ tasks[t].pc = "prompt"
    /\ \E o \in Outcomes(tasks[t], {Ret(h) : h \in Histories}), provider \in Providers :
         LET tk == Resume(tasks[t], o)
             r == should_send_proactive_message("prompt", o, provider, Threshold)
         IN  \E next \in AfterShouldSend(tk, r, cfg.admin_only) : Step(t, next)

\* message_analyzer.py:382: the phase-1 `await provider.text_chat(...)` completes.
DecisionReplied(t) ==
    /\ tasks[t].pc = "decision"
    /\ \E o \in Outcomes(tasks[t], ChatOutcomes(DecisionReplies)) :
         LET tk == Resume(tasks[t], o)
             r == should_send_proactive_message("decision", o, "active", Threshold)
         IN  \E next \in AfterShouldSend(tk, r, cfg.admin_only) : Step(t, next)

\* message_analyzer.py:79: get_proactive_topic's `await
\* self._get_message_history(session_id)` completes.
TopicHistoryFetched(t) ==
    /\ tasks[t].pc = "topic_history"
    /\ \E o \in Outcomes(tasks[t], {Ret(h) : h \in Histories}), provider \in Providers :
         LET tk == Resume(tasks[t], o)
             r == get_proactive_topic("topic_history", o, provider)
         IN  \E next \in AfterTopic(tk, r, provider, cfg.admin_only) : Step(t, next)

\* message_analyzer.py:431: the phase-2 `await provider.text_chat(...)` completes.
TopicReplied(t) ==
    /\ tasks[t].pc = "topic"
    /\ \E o \in Outcomes(tasks[t], ChatOutcomes(TopicReplies)), provider \in Providers :
         LET tk == Resume(tasks[t], o)
             r == get_proactive_topic("topic", o, provider)
         IN  \E next \in AfterTopic(tk, r, provider, cfg.admin_only) : Step(t, next)

\* main.py:265: `await self._call_main_bot_llm(...)` completes.
MainBotReplied(t) ==
    /\ tasks[t].pc = "main_llm"
    /\ \E o \in Outcomes(tasks[t], ChatOutcomes(TopicReplies)), adapter \in BOOLEAN :
         LET tk == Resume(tasks[t], o)
             r == _send_proactive_message("main_llm", o, "active", adapter)
             called == IF r = Await("send") THEN {Get(tk.session_id)} ELSE {}
         IN  \E next \in AfterSend([tk EXCEPT !.sunk = @ \cup called], r, cfg.admin_only) :
               Step(t, next)

\* main.py:279: `await adapter.send_by_session(...)` completes.
SinkReturned(t) ==
    /\ tasks[t].pc = "send"
    /\ \E o \in Outcomes(tasks[t], {Ret(None), Raise("Exception")}) :
         LET tk == Resume(tasks[t], o)
             r == _send_proactive_message("send", o, "active", TRUE)
         IN  \E next \in AfterSend(tk, r, cfg.admin_only) : Step(t, next)

Next ==
    \/ Initialize
    \/ Terminate
    \/ \E job_id \in registered : TimerFire(job_id)
    \/ \E t \in TaskIds :
         \/ InitializeResume(t)
         \/ ExecutorCallback(t)
         \/ StoreListed(t)
         \/ RecentChecked(t)
         \/ HistoryFetched(t)
         \/ PromptBuilt(t)
         \/ DecisionReplied(t)
         \/ TopicHistoryFetched(t)
         \/ TopicReplied(t)
         \/ MainBotReplied(t)
         \/ SinkReturned(t)

Spec == Init /\ [][Next]_vars

\* An await of the batch in slot t completes: the store, the oracle, the main
\* LLM or the delivery sink returns or raises.
AwaitCompletes(t) ==
    \/ StoreListed(t)
    \/ RecentChecked(t)
    \/ HistoryFetched(t)
    \/ PromptBuilt(t)
    \/ DecisionReplied(t)
    \/ TopicHistoryFetched(t)
    \/ TopicReplied(t)
    \/ MainBotReplied(t)
    \/ SinkReturned(t)

\* The batch in slot t moves on: an await of it completes, or, once it has
\* finished, the coroutine that awaited it (initialize) or the executor's
\* done-callback runs.  At most one of the three is enabled at a time.
TaskProgress(t) ==
    \/ AwaitCompletes(t)
    \/ ExecutorCallback(t)
    \/ InitializeResume(t)

\* Every call awaited eventually returns or raises, and the event loop
\* eventually runs what is ready to run.
Fairness == \A t \in TaskIds : WF_vars(TaskProgress(t))

\* The plugin before initialize(); where debug_trigger_on_init lets the eager
\* batch and a batch of the timer run side by side, over a store of one
\* private session.
InitFair ==
    /\ Init
    /\ cfg.debug_trigger_on_init =>
           \A s1, s2 \in PrivateSessions(store) : s1 = s2

SpecFair == InitFair /\ [][Next]_vars /\ Fairness

\* ------------------------------------------- functions applied on their own

\* The plugin before initialize(), with the function `fn` about to be
\* applied to each of the arguments `args`.
InitCall(fn, args) ==
    /\ cfg = [admin_only |-> FALSE, debug_trigger_on_init |-> FALSE,
              no_message_threshold |-> "30min"]
    /\ store = <<>>
    /\ scheduler = "none"
    /\ jobs = <<>>
    /\ registered = {}
    /\ instances = <<>>
    /\ refused = {}
    /\ init_pc = "new"
    /\ tasks = [t \in TaskIds |-> IdleTask]
    /\ call \in {[fn |-> fn, args |-> a, done |-> FALSE, result |-> <<>>] : a \in args}
    /\ db = <<>>
    /\ run = NoRun

\* The state of the plugin, which a function applied on its own leaves alone.
plugin == <<cfg, store, scheduler, jobs, registered, instances, refused, init_pc, tasks, db, run>>

Pending(fn) == call.fn = fn /\ ~call.done

Return(result) == [call EXCEPT !.done = TRUE, !.result = result]

Applied(fn) == call.fn = fn /\ call.done

\* The values of no_message_threshold: those of the mapping and one outside it.
ThresholdNames == {"1min", "5min", "10min", "30min", "1hour", "3hour"}

\* int(time.time()): of a clock that starts at the epoch, and of a clock that is set
EpochClock == 1000
Clocks == {EpochClock, Now}

\* The values _get_last_message_time may return: the int() of a stored
\* timestamp, or None.
Timestamps ==
    {0, EpochClock, EpochClock - 5, Now, Now - 5, Now - 59, Now - 60, Now - 1799,
     Now - 1800, Now - 3600, Now + 60}

HasRecentMessageArgs ==
    [ o : {Ret(None), Raise("Exception")} \cup {Ret(Some(ts)) : ts \in Timestamps},
      no_message_threshold : {_parse_time_threshold(n) : n \in ThresholdNames},
      current_timestamp : Clocks ]

\* MessageAnalyzer._has_recent_message after its await
HasRecentMessage ==
    /\ Pending("_has_recent_message")
    /\ call' = Return(_has_recent_message(call.args.o,
                                          call.args.no_message_threshold,
                                          call.args.current_timestamp))
    /\ UNCHANGED plugin

InitGate == InitCall("_has_recent_message", HasRecentMessageArgs)

NextGate == HasRecentMessage

SpecGate == InitGate /\ [][NextGate]_vars

\* ------------------------------------------------------ context_processor

\* contexts[start:] of a Python list: a negative start counts from the end,
\* and a start outside the list is clipped to it.
SliceFrom(contexts, start) ==
    LET n == Len(contexts)
        first == IF start < 0
                 THEN (IF n + start < 0 THEN 0 ELSE n + start)
                 ELSE (IF start > n THEN n ELSE start)
    IN  IF first >= n THEN <<>> ELSE SubSeq(contexts, first + 1, n)

\* The index (from 1) of the first message at which the loop of
\* _ensure_context_format stops: a message whose role is user, or a message
\* that is not a dict, of which msg.get raises; 0 when the loop runs out.
FirstStop(contexts) ==
    IF \E i \in DOMAIN contexts :
           ~contexts[i].dict \/ contexts[i].role = "user"
    THEN CHOOSE i \in DOMAIN contexts :
             /\ ~contexts[i].dict \/ contexts[i].role = "user"
             /\ \A j \in 1..(i - 1) :
                    contexts[j].dict /\ contexts[j].role # "user"
    ELSE 0

\* the slice handed back as it is
_ensure_context_format_asis(contexts) == contexts

\* ContextProcessor._ensure_context_format
_ensure_context_format(contexts) ==
    IF contexts = <<>>
    THEN contexts
    ELSE LET stop == FirstStop(contexts)
         IN  IF stop = 0
             THEN contexts                       \* user_index is None
             ELSE IF ~contexts[stop].dict
             THEN contexts                       \* except Exception
             ELSE IF stop - 1 > 0                \* user_index > 0
             THEN SliceFrom(contexts, stop - 1)
             ELSE contexts

\* the length of the list, not halved
context_length_turns(contexts) == Len(contexts)

\* context_length = len(contexts) // 2
context_length(contexts) == Len(contexts) \div 2

\* a keep_count of one exchange more
keep_count_wide(max_context_length, dequeue_context_length) ==
    (max_context_length - dequeue_context_length + 2) * 2

\* keep_count = (max_context_length - dequeue_context_length + 1) * 2
keep_count(max_context_length, dequeue_context_length) ==
    (max_context_length - dequeue_context_length + 1) * 2

\* the slice taken from the other end: contexts[keep_count:]
truncated_contexts_head(contexts, max_context_length, dequeue_context_length) ==
    SliceFrom(contexts, keep_count(max_context_length, dequeue_context_length))

\* truncated_contexts = contexts[-keep_count:]
truncated_contexts(contexts, max_context_length, dequeue_context_length) ==
    SliceFrom(contexts, 0 - keep_count(max_context_length, dequeue_context_length))

\* ContextProcessor.apply_context_limit.  With integers for the two lengths
\* neither the slice nor _ensure_context_format (which catches its own
\* exceptions) raises, so the except of lines 85-87 is never entered.
apply_context_limit(contexts, max_context_length, dequeue_context_length) ==
    IF contexts = <<>>
    THEN Ret(<<>>)
    ELSE IF max_context_length = -1
    THEN Ret(contexts)
    ELSE IF context_length(contexts) <= max_context_length
    THEN Ret(contexts)
    ELSE Ret(_ensure_context_format(
                 truncated_contexts(contexts, max_context_length,
                                    dequeue_context_length)))

\* The messages of a conversation history: a dict with a role, or an entry
\* of the JSON list that is not a dict.  content tells the messages apart.
Message(m, content) == [m EXCEPT !.content = content]

\* The lists of n messages, the i-th with content i.
Contexts(n) ==
    {[i \in 1..n |-> Message(k[i], i)] : k \in [1..n -> {UserTurn, AgentTurn, JunkTurn}]}

\* A history of six exchanges: user, assistant, user, assistant, ...
SixExchanges ==
    [i \in 1..12 |-> Message(IF i % 2 = 1 THEN UserTurn ELSE AgentTurn, i)]

\* provider_settings.max_context_length and dequeue_context_length
MaxContextLengths == -1..3
DequeueContextLengths == 0..3

ApplyContextLimitArgs ==
    [ contexts : UNION {Contexts(n) : n \in 0..MaxTurns} \cup {SixExchanges},
      max_context_length : MaxContextLengths,
      dequeue_context_length : DequeueContextLengths ]

\* ContextProcessor.apply_context_limit applied to a history
ApplyContextLimit ==
    /\ Pending("apply_context_limit")
    /\ call' = Return(apply_context_limit(call.args.contexts,
                                          call.args.max_context_length,
                                          call.args.dequeue_context_length))
    /\ UNCHANGED plugin

InitContext == InitCall("apply_context_limit", ApplyContextLimitArgs)

NextContext == ApplyContextLimit

SpecContext == InitContext /\ [][NextContext]_vars

\* ------------------------------------------------------ duration tokens

\* the interval parser with no default for a token outside its mapping
_parse_interval_strict(interval) ==
    CASE interval = "5min" -> 5 * 60
      [] interval = "10min" -> 10 * 60
      [] interval = "30min" -> 30 * 60
      [] interval = "1hour" -> 60 * 60
      [] interval = "3hour" -> 3 * 60 * 60
      [] OTHER -> 0

\* SchedulerManager._parse_interval
_parse_interval(interval) ==
    CASE interval = "5min" -> 5 * 60
      [] interval = "10min" -> 10 * 60
      [] interval = "30min" -> 30 * 60
      [] interval = "1hour" -> 60 * 60
      [] interval = "3hour" -> 3 * 60 * 60
      [] OTHER -> 10 * 60

\* The values of poll_interval and no_message_threshold: the tokens of the
\* two mappings and strings outside both.
DurationArgs ==
    {"1min", "5min", "10min", "30min", "1hour", "3hour",
     "", " ", "min", "hour", "0min", "2min", "3min", "15min", "20min", "60min",
     "2hour", "6hour", "12hour", "1day", "1h", "3h", "10m", "30m", "60", "600",
     "1 min", "10 min", "1MIN", "10MIN", "1Hour", "3hours", "5mins", "10min ",
     " 30min", "1hour\n"}

\* SchedulerManager._parse_interval applied to a token
ParseInterval ==
    /\ Pending("_parse_interval")
    /\ call' = Return(Ret(_parse_interval(call.args)))
    /\ UNCHANGED plugin

\* MessageAnalyzer._parse_time_threshold applied to a token
ParseTimeThreshold ==
    /\ Pending("_parse_time_threshold")
    /\ call' = Return(Ret(_parse_time_threshold(call.args)))
    /\ UNCHANGED plugin

InitCodec ==
    \/ InitCall("_parse_interval", DurationArgs)
    \/ InitCall("_parse_time_threshold", DurationArgs)

NextCodec == ParseInterval \/ ParseTimeThreshold

SpecCodec == InitCodec /\ [][NextCodec]_vars

\* ------------------------------------------- SchedulerManager on its own

\* The number of jobs SchedulerManager.jobs grows to.
MaxJobs == 4

\* What the calls of SchedulerManager leave alone.
others == <<cfg, store, instances, refused, init_pc, tasks, db, run>>

\* A call of SchedulerManager that has returned or raised.
Called(fn, args, result) == [fn |-> fn, args |-> args, done |-> TRUE, result |-> result]

\* SchedulerManager.start
Start ==
    /\ scheduler' = "started"
    /\ call' = Called("start", <<>>, Ret(None))
    /\ UNCHANGED <<jobs, registered, others>>

\* SchedulerManager.stop: the scheduler is shut down and dropped, with the
\* jobs it holds; self.jobs is left as it is.
Stop ==
    /\ registered' = IF scheduler = "started" THEN {} ELSE registered
    /\ scheduler' = "none"
    /\ call' = Called("stop", <<>>, Ret(None))
    /\ UNCHANGED <<jobs, others>>

\* SchedulerManager.add_job: the id is made of len(self.jobs).  Without a
\* scheduler it raises RuntimeError; AsyncIOScheduler.add_job raises
\* ConflictingIdError for an id it already holds.  What it raises is logged
\* and raised again.
AddJob ==
    /\ Len(jobs) < MaxJobs
    /\ LET args == [id |-> NewJobId, collided |-> NewJobId \in registered]
       IN  IF scheduler = "none" \/ args.collided
           THEN /\ call' = Called("add_job", args, Raise("Exception"))
                /\ UNCHANGED <<jobs, registered>>
           ELSE /\ registered' = registered \cup {NewJobId}
                /\ jobs' = Append(jobs, NewJobId)
                /\ call' = Called("add_job", args, Ret(None))
    /\ UNCHANGED <<scheduler, others>>

\* SchedulerManager.remove_job(job_id): the job leaves the scheduler (a
\* JobLookupError for an id it does not hold is logged); self.jobs is left
\* as it is.
RemoveJob(job_id) ==
    /\ registered' = IF scheduler = "started" THEN registered \ {job_id} ELSE registered
    /\ call' = Called("remove_job", [id |-> job_id, collided |-> FALSE], Ret(None))
    /\ UNCHANGED <<scheduler, jobs, others>>

\* clear_all_jobs that empties self.jobs and leaves the scheduler its jobs
ClearAllJobsListOnly ==
    /\ jobs' = IF scheduler = "started" THEN <<>> ELSE jobs
    /\ call' = Called("clear_all_jobs", <<>>, Ret(None))
    /\ UNCHANGED <<scheduler, registered, others>>

\* SchedulerManager.clear_all_jobs: with a scheduler, remove_all_jobs() and
\* self.jobs = []
ClearAllJobs ==
    /\ IF scheduler = "started"
       THEN registered' = {} /\ jobs' = <<>>
       ELSE UNCHANGED <<jobs, registered>>
    /\ call' = Called("clear_all_jobs", <<>>, Ret(None))
    /\ UNCHANGED <<scheduler, others>>

\* SchedulerManager.get_jobs_info: the ids of the jobs it reports
get_jobs_info ==
    IF scheduler = "none" THEN <<>> ELSE jobs

\* SchedulerManager.get_jobs_info is called
GetJobsInfo ==
    /\ call' = Called("get_jobs_info", <<>>, Ret(get_jobs_info))
    /\ UNCHANGED <<scheduler, jobs, registered, others>>

InitJobs ==
    /\ cfg = [admin_only |-> FALSE, debug_trigger_on_init |-> FALSE,
              no_message_threshold |-> "30min"]
    /\ store = <<>>
    /\ scheduler = "none"
    /\ jobs = <<>>
    /\ registered = {}
    /\ instances = <<>>
    /\ refused = {}
    /\ init_pc = "new"
    /\ tasks = [t \in TaskIds |-> IdleTask]
    /\ call = NoCall
    /\ db = <<>>
    /\ run = NoRun

NextJobs ==
    \/ Start
    \/ Stop
    \/ AddJob
    \/ \E job_id \in 0..(MaxJobs - 1) : RemoveJob(job_id)
    \/ ClearAllJobs
    \/ GetJobsInfo

SpecJobs == InitJobs /\ [][NextJobs]_vars

\* -------------------------------------------------------- prompt_manager

Quoted(text) == <<"\"">> \o text \o <<"\"">>

\* The content _create_analysis_prompt_template writes to
\* analysis_prompt_template.txt, its prose shortened: characters, and the
\* three replacement fields (an element that names a field).
analysis_prompt_template ==
    <<"H", ":", "\n", "DIALOGUE_HISTORY", "\n",
      "T", ":", " ", "TIME_INFO", "\n",
      "F", ":", " ", "FREQUENCY_INFO", "\n",
      "+", " ">> \o Quoted(MarkerYes) \o <<"\n", "-", " ">> \o Quoted(MarkerNoShort)
      \o <<"\n", ".">>

FieldNames == {"DIALOGUE_HISTORY", "TIME_INFO", "FREQUENCY_INFO"}

\* str.format(**variables): a replacement field gives the value of its
\* variable, as it is; a brace that opens or closes no field raises
\* ValueError.
RECURSIVE Format(_, _)
Format(template, variables) ==
    IF template = <<>>
    THEN Ret(<<>>)
    ELSE LET e == Head(template)
             rest == Format(Tail(template), variables)
         IN  IF e \in {"{", "}"}
             THEN Raise("Exception")
             ELSE IF rest.kind = "raise"
             THEN rest
             ELSE IF e \in FieldNames
             THEN Ret(variables[e] \o rest.value)
             ELSE Ret(<<e>> \o rest.value)

\* self.frequency_modes: the name and the base_frequency of a mode, shortened
frequency_modes ==
    [ rare |-> <<"r", ":", "6", "0">>,
      moderate |-> <<"m", ":", "3", "0">>,
      frequent |-> <<"f", ":", "1", "0">> ]

\* PromptManager._get_frequency_description
_get_frequency_description(mode) ==
    (IF mode \in DOMAIN frequency_modes
     THEN frequency_modes[mode]
     ELSE frequency_modes["moderate"]) \o <<",", "~">>

\* a fallback prompt that lists the three values and nothing else
_get_default_analysis_prompt_bare(dialogue_history, time_info, frequency_info) ==
    dialogue_history \o <<"\n">> \o time_info \o <<"\n">> \o frequency_info

\* PromptManager._get_default_analysis_prompt, called with a frequency_info
\* that is not empty: the f-string of the same text as the template
_get_default_analysis_prompt(dialogue_history, time_info, frequency_info) ==
    <<"H", ":", "\n">> \o dialogue_history \o <<"\n", "T", ":", " ">> \o time_info
        \o <<"\n", "F", ":", " ">> \o frequency_info
        \o <<"\n", "+", " ">> \o Quoted(MarkerYes)
        \o <<"\n", "-", " ">> \o Quoted(MarkerNoShort) \o <<"\n", ".">>

\* PromptManager.get_analysis_prompt.  given: the frequency_info it is called
\* with; reply_frequency: config["reply_frequency"]; template_file: what
\* opening and reading analysis_prompt_template.txt gives.
get_analysis_prompt(dialogue_history, time_info, given, reply_frequency, template_file) ==
    LET frequency_info ==
            IF given = <<>>
            THEN _get_frequency_description(reply_frequency)
            ELSE given
        variables ==
            [ DIALOGUE_HISTORY |-> dialogue_history,
              TIME_INFO |-> time_info,
              FREQUENCY_INFO |-> frequency_info ]
        prompt ==
            IF template_file.kind = "raise"
            THEN template_file
            ELSE Format(template_file.value, variables)
    IN  IF prompt.kind = "raise"
        THEN Ret(_get_default_analysis_prompt(dialogue_history, time_info,
                                              frequency_info))
        ELSE prompt

\* The arguments of get_analysis_prompt: texts with and without braces and
\* markers; the template file holds what the plugin wrote to it, or cannot
\* be read.
GetAnalysisPromptArgs ==
    [ dialogue_history : {<<>>, <<"h", "i">>, <<"{">>, <<"{", "X", "}">>,
                          <<"}", "{">>, MarkerNo},
      time_info : {<<>>, <<"9">>},
      frequency_info : {<<>>, <<"m">>, <<"{", "}">>},
      reply_frequency : {"rare", "moderate", "frequent", "often"},
      template_file : {Ret(analysis_prompt_template), Raise("Exception")} ]

\* PromptManager.get_analysis_prompt applied to its arguments
GetAnalysisPrompt ==
    /\ Pending("get_analysis_prompt")
    /\ call' = Return(get_analysis_prompt(call.args.dialogue_history,
                                          call.args.time_info,
                                          call.args.frequency_info,
                                          call.args.reply_frequency,
                                          call.args.template_file))
    /\ UNCHANGED plugin

InitPrompt == InitCall("get_analysis_prompt", GetAnalysisPromptArgs)

NextPrompt == GetAnalysisPrompt

SpecPrompt == InitPrompt /\ [][NextPrompt]_vars

\* ------------------------------------- the history of one session, read

\* The i-th message of the stored history: user and assistant in turn, with
\* a 'timestamp' key (Some) or without one (None).
StoredMessage(i, timestamp) ==
    [role |-> IF i % 2 = 1 THEN "user" ELSE "assistant", content |-> i,
     dict |-> TRUE, timestamp |-> timestamp]

\* MessageHistoryEnhancer._enhance_single_message
_enhance_single_message(message) ==
    IF message.timestamp # None
    THEN message
    ELSE [message EXCEPT !.timestamp = Some(Now)]

\* MessageHistoryEnhancer._needs_timestamp_update
_needs_timestamp_update(original, enhanced) ==
    \E i \in DOMAIN original : original[i].timestamp # enhanced[i].timestamp

\* MessageHistoryEnhancer.enhance_message_history on the conversation read
\* (conversation: what get_conversation gave; update: what the await of
\* db.update_conversation gives).  result: the list returned; update: whether
\* db.update_conversation was called; stored: the history it leaves stored.
enhance_message_history(history, conversation, update) ==
    IF conversation.kind = "raise" \/ conversation.value = <<>>
    THEN [result |-> <<>>, update |-> FALSE, stored |-> history]
    ELSE LET history_data == conversation.value
             enhanced_history ==
                 [i \in DOMAIN history_data |-> _enhance_single_message(history_data[i])]
             needed == _needs_timestamp_update(history_data, enhanced_history)
         IN  [result |-> enhanced_history,
              update |-> needed,
              stored |-> IF needed /\ update.kind = "return"
                         THEN enhanced_history
                         ELSE history]

\* MessageHistoryEnhancer.get_enhanced_conversation_history(session_id, limit)
get_enhanced_conversation_history(history, conversation, update, limit) ==
    LET e == enhance_message_history(history, conversation, update)
    IN  [e EXCEPT !.result = IF e.result # <<>> THEN SliceFrom(e.result, 0 - limit)
                                                ELSE <<>>]

\* MessageAnalyzer._get_message_history: the enhanced history when timestamp
\* enhancement is on and gives one, else the history of the conversation as
\* it is stored; [] when the store raises.
_get_message_history(history, conversation, update, enable_timestamp_enhancement) ==
    LET raw == IF conversation.kind = "raise" THEN <<>> ELSE conversation.value
        e == get_enhanced_conversation_history(history, conversation, update, 10)
    IN  IF enable_timestamp_enhancement
        THEN (IF e.result # <<>> THEN e ELSE [e EXCEPT !.result = raw])
        ELSE [result |-> raw, update |-> FALSE, stored |-> history]

\* conversation.updated_at of the conversation of the session
updated_at == Some(Now - 4000)

\* MessageAnalyzer._get_last_message_time on the conversation as it is
\* stored: the 'timestamp' of the last message of its history when it has
\* one (no message of the model has a 'time' key), else its updated_at.
_get_last_message_time(history) ==
    IF history # <<>> /\ history[Len(history)].timestamp # None
    THEN history[Len(history)].timestamp
    ELSE updated_at

\* _build_analysis_prompt and _build_topic_prompt_with_history: the messages
\* listed in the prompt, message_history[-5:]
PromptMessages(message_history) == SliceFrom(message_history, 0 - 5)

\* What a read of the conversation and a write to it may give.
Reads == {Ret(db), Raise("Exception")}
Writes == {Ret(None), Raise("Exception")}

\* The run after a call of _get_message_history.
Fetched(h) ==
    [run EXCEPT !.updates = IF h.update THEN @ + 1 ELSE @,
                !.overwritten = @ \/ h.stored # db]

ours == <<cfg, store, scheduler, jobs, registered, instances, refused, init_pc, tasks, call>>

\* message_analyzer.py:50: should_send_proactive_message fetches the history
\* and tests it.
RunHistoryFetched ==
    /\ run.pc = "history"
    /\ \E conversation \in Reads, update \in Writes :
         LET h == _get_message_history(db, conversation, update,
                                       run.enable_timestamp_enhancement)
         IN  /\ db' = h.stored
             /\ run' = [Fetched(h) EXCEPT
                            !.pc = IF NoHistory(h.result) THEN "skipped" ELSE "prompt"]
    /\ UNCHANGED ours

\* message_analyzer.py:277: _build_analysis_prompt fetches the history again
\* and lists its last messages in the prompt of phase 1.
RunPromptBuilt ==
    /\ run.pc = "prompt"
    /\ \E conversation \in Reads, update \in Writes :
         LET h == _get_message_history(db, conversation, update,
                                       run.enable_timestamp_enhancement)
         IN  /\ db' = h.stored
             /\ run' = [Fetched(h) EXCEPT
                            !.pc = "decision",
                            !.message_history = h.result,
                            !.decision_prompt = PromptMessages(h.result)]
    /\ UNCHANGED ours

\* message_analyzer.py:62: the oracle answers phase 1.
RunDecisionReplied ==
    /\ run.pc = "decision"
    /\ \E should_send \in BOOLEAN :
         run' = [run EXCEPT !.pc = IF should_send THEN "topic_history" ELSE "skipped"]
    /\ UNCHANGED <<ours, db>>

\* message_analyzer.py:79-85: get_proactive_topic fetches the history, tests
\* it and lists its last messages in the prompt of phase 2.
RunTopicPromptBuilt ==
    /\ run.pc = "topic_history"
    /\ \E conversation \in Reads, update \in Writes :
         LET h == _get_message_history(db, conversation, update,
                                       run.enable_timestamp_enhancement)
         IN  /\ db' = h.stored
             /\ run' = IF NoHistory(h.result)
                        THEN [Fetched(h) EXCEPT !.pc = "skipped"]
                        ELSE [Fetched(h) EXCEPT
                                 !.pc = "topic",
                                 !.dialogue_history = h.result,
                                 !.topic_prompt = PromptMessages(h.result)]
    /\ UNCHANGED ours

\* message_analyzer.py:88: the oracle answers phase 2.
RunTopicReplied ==
    /\ run.pc = "topic"
    /\ run' = [run EXCEPT !.pc = "done"]
    /\ UNCHANGED <<ours, db>>

\* The owner of the store appends the next message to the conversation
\* while the session is analysed.
ConversationAppended ==
    /\ run.pc \in {"prompt", "decision", "topic_history"}
    /\ Len(db) < MaxStored
    /\ db' = Append(db, StoredMessage(Len(db) + 1, None))
    /\ run' = [run EXCEPT !.appended = @ + 1]
    /\ UNCHANGED ours

\* The histories a conversation is stored with: none of its messages has a
\* timestamp, or all have one.
StoredHistories ==
    {[i \in 1..n |-> StoredMessage(i, timestamp)] :
        n \in 0..(MaxStored - 1), timestamp \in {None, Some(Now - 3600)}}

InitHistory ==
    /\ cfg = [admin_only |-> FALSE, debug_trigger_on_init |-> FALSE,
              no_message_threshold |-> "30min"]
    /\ store = <<>>
    /\ scheduler = "none"
    /\ jobs = <<>>
    /\ registered = {}
    /\ instances = <<>>
    /\ refused = {}
    /\ init_pc = "new"
    /\ tasks = [t \in TaskIds |-> IdleTask]
    /\ call = NoCall
    /\ db \in StoredHistories
    /\ run \in [ pc : {"history"},
                  last_message_time : {_get_last_message_time(db)},
                  enable_timestamp_enhancement : BOOLEAN,
                  max_context_length : {-1, 2},
                  dequeue_context_length : {1},
                  message_history : {<<>>},
                  decision_prompt : {<<>>},
                  dialogue_history : {<<>>},
                  topic_prompt : {<<>>},
                  updates : {0},
                  overwritten : {FALSE},
                  appended : {0} ]

NextHistory ==
    \/ RunHistoryFetched
    \/ RunPromptBuilt
    \/ RunDecisionReplied
    \/ RunTopicPromptBuilt
    \/ RunTopicReplied
    \/ ConversationAppended

SpecHistory == InitHistory /\ [][NextHistory]_vars

\* ----------------------------------------------------------------- claims

\* The session an oracle reply or a raised await was for.
LastSession(tk) == Get(tk.last.session_id)

\* The last await of tk was the oracle call `at` and gave a response
\* (possibly absent, possibly with an empty completion_text).
Replied(tk, at) == tk.last.at = at /\ tk.last.o.kind = "return"

\* the completion_text of that response is present and not empty
HasText(tk) == tk.last.o.value # None /\ Get(tk.last.o.value) # <<>>

ReplyText(tk) == Get(tk.last.o.value)

\* C1: at most one run started by the timer is executing for a job id, in
\* every reachable state: a fire that finds the job running starts nothing.
C1_OneTimerRunPerJob ==
    \A t, u \in TaskIds :
        ( /\ tasks[t].origin = "timer" /\ Active(tasks[t])
          /\ tasks[u].origin = "timer" /\ Active(tasks[u])
          /\ tasks[t].job = tasks[u].job ) => t = u

\* the timer fired while a run of the job was executing, and was refused
C1_Witness ==
    \E t \in TaskIds :
        /\ tasks[t].origin = "timer"
        /\ Active(tasks[t])
        /\ tasks[t].job \in refused

\* C2: at most one execution of the batch operation is in flight, the one
\* initialize() awaits for debug_trigger_on_init included.
C2_OneBatchInFlight ==
    \A t, u \in TaskIds : (Active(tasks[t]) /\ Active(tasks[u])) => t = u

\* C3: a batch that returns has visited every discovered session, and a
\* session for which the oracle (while analysing) or the sink (while
\* sending) raised an exception is in the skip-map with the error reason.
C3_FailureIsolatedAndRecorded ==
    \A t \in TaskIds :
        LET tk == tasks[t]
        IN  /\ tk.pc = "returned" => tk.visited = tk.discovered
            /\ (IsException(tk.last.o) /\ tk.last.at \in {"decision", "topic", "send"}) =>
                   tk.sessions_to_skip[LastSession(tk)] = SkipError

C5_NoExceptionEscapes ==
    \A t \in TaskIds :
        /\ tasks[t].pc # "raised"
        /\ tasks[t].escaped \cap
               {"should_send_proactive_message", "get_proactive_topic"} = {}

\* the delivery sink raised for a session and the batch went on
C5_Witness ==
    \E t \in TaskIds :
        /\ tasks[t].last.at = "send"
        /\ IsException(tasks[t].last.o)
        /\ tasks[t].pc \in {"recent", "returned"}

\* a session with this skip reason was not handed to the delivery step
NotSent(tk, reason) ==
    \A s \in Sessions :
        tk.sessions_to_skip[s] = reason =>
            /\ s \notin tk.sessions_to_send
            /\ tk.handed[s] = None
            /\ s \notin tk.sunk

\* C6: a phase-1 response without the literal ^&YES&^ (absent, empty, or any
\* other text) gives proceed == false: the session is skipped as declined,
\* and a session skipped as declined is not sent to in that batch.
C6_DecisionFailClosed ==
    \A t \in TaskIds :
        LET tk == tasks[t]
        IN  /\ ( /\ Replied(tk, "decision")
                 /\ ~(HasText(tk) /\ Contains(ReplyText(tk), MarkerYes)) ) =>
                   /\ tk.decided[LastSession(tk)] = Some(FALSE)
                   /\ tk.sessions_to_skip[LastSession(tk)] = SkipDeclined
            /\ NotSent(tk, SkipDeclined)

\* the oracle answered ^&NO^, the form the prompt asks for, and the session
\* was skipped
C6_Witness ==
    \E t \in TaskIds :
        /\ Replied(tasks[t], "decision")
        /\ HasText(tasks[t])
        /\ ReplyText(tasks[t]) = MarkerNoShort
        /\ tasks[t].sessions_to_skip[LastSession(tasks[t])] = SkipDeclined

C8_TopicOnlyAfterProceed ==
    \A t \in TaskIds :
        \A s \in tasks[t].topic_phase : tasks[t].decided[s] = Some(TRUE)

\* one session of a batch was declined and another is in its topic phase
C8_Witness ==
    \E t \in TaskIds :
        /\ tasks[t].pc = "topic"
        /\ \E s \in Sessions :
              /\ tasks[t].decided[s] = Some(FALSE)
              /\ s \notin tasks[t].topic_phase

\* the phase-2 reply given leads to Send with the trimmed reply as the topic
SentWithTrimmedReply(tk) ==
    /\ LastSession(tk) \in tk.sessions_to_send
    /\ tk.handed[LastSession(tk)] = Some(Strip(ReplyText(tk)))
    /\ tk.sessions_to_skip[LastSession(tk)] = NoReason

OracleAwaits == {"decision", "topic"}

\* The last step of tk was a gate of should_send_proactive_message closing.
GateClosed(tk, at) == tk.last.at = at /\ tk.last.o.kind = "return"

\* No oracle call was made for the session of the last step, the loop has
\* left that session, and it is skipped as declined.
SkippedUnasked(tk) ==
    /\ tk.sessions_to_skip[LastSession(tk)] = SkipDeclined
    /\ tk.decided[LastSession(tk)] = Some(FALSE)
    /\ tk.last.awaited \cap OracleAwaits = {}
    /\ LastSession(tk) \notin tk.topic_phase
    /\ tk.session_id # tk.last.session_id

\* A session that has a verdict is not the session of the iteration: the
\* loop does not come back to it in that batch.
NotReentered(tk) ==
    \A s \in Sessions :
        (tk.sessions_to_skip[s] # NoReason /\ tk.session_id # None) =>
            Get(tk.session_id) # s

\* C11: when the transcript should_send_proactive_message fetches for a
\* session is empty, the session is skipped and no oracle call, of phase 1
\* or of phase 2, is made for it in that batch.
C11_NoHistoryNoOracle ==
    \A t \in TaskIds :
        /\ (GateClosed(tasks[t], "history") /\ tasks[t].last.o.value = <<>>) =>
               SkippedUnasked(tasks[t])
        /\ NotReentered(tasks[t])

\* the transcript of a session was fetched, was empty, and the session is
\* in the skip-map
C11_Witness ==
    \E t \in TaskIds :
        /\ GateClosed(tasks[t], "history")
        /\ tasks[t].last.o.value = <<>>
        /\ tasks[t].last.awaited = {"recent", "history"}
        /\ tasks[t].sessions_to_skip[LastSession(tasks[t])] # NoReason

\* The last step of tk read the last-activity time of a session, which was
\* present and less than the threshold ago.
ReadRecent(tk) ==
    /\ GateClosed(tk, "recent")
    /\ tk.last.o.value # None
    /\ Now - Get(tk.last.o.value) < Threshold

C13_GateIsComparison ==
    (Applied("_has_recent_message") /\ call.args.o.kind = "return") =>
        LET lastActivity == call.args.o.value
            now == call.args.current_timestamp
            threshold == call.args.no_message_threshold
        IN  call.result =
                Ret(IF lastActivity = None
                    THEN FALSE
                    ELSE now - Get(lastActivity) < threshold)

\* The session s is never analysed nor sent to by the batch tk: it is not
\* the session of an iteration suspended at an await, no decision, topic
\* phase, delivery or sink call exists for it.
Untouched(tk, s) ==
    /\ tk.session_id # Some(s)
    /\ tk.decided[s] = None
    /\ s \notin tk.topic_phase
    /\ s \notin tk.sessions_to_send
    /\ tk.handed[s] = None
    /\ s \notin tk.sunk

\* the trailing colon-delimited segment of a session id
Principal(s) == s[Len(s)]

\* C14: with admin_only enabled, a session whose trailing segment is not one
\* of the admin principals is never analysed and never sent to, in any
\* batch; when the loop visits it, it is skipped as not an admin's.
C14_AdminOnlyFilters ==
    \A t \in TaskIds : \A s \in Sessions :
        (cfg.admin_only /\ Principal(s) \notin admins_id) =>
            /\ Untouched(tasks[t], s)
            /\ s \in tasks[t].visited => tasks[t].sessions_to_skip[s] = SkipNotAdmin

\* with admin_only enabled a batch skipped the session of a user and
\* analysed the session of an admin
C14_Witness ==
    \E t \in TaskIds :
        /\ cfg.admin_only
        /\ tasks[t].sessions_to_skip[UserSession] = SkipNotAdmin
        /\ tasks[t].decided[AdminSession] # None

\* a session id of at least three segments whose channel-kind segment is
\* FriendMessage
IsPrivateId(s) == Len(s) >= 3 /\ s[2] = "FriendMessage"

\* C15: every session id discovery returns is a private one, and a session
\* of the store that is not private (a group session, an id of fewer than
\* three segments) is never visited, analysed or sent to.
C15_OnlyPrivateSessions ==
    \A t \in TaskIds :
        /\ \A s \in tasks[t].discovered : IsPrivateId(s)
        /\ \A s \in Sessions :
               ~IsPrivateId(s) =>
                   /\ Untouched(tasks[t], s)
                   /\ s \notin tasks[t].visited

\* the store holds a group session beside the session of a user, and a
\* batch discovered and analysed the session of the user only
C15_Witness ==
    \E t \in TaskIds :
        /\ GroupSession \in Range(store)
        /\ tasks[t].discovered = {UserSession}
        /\ tasks[t].decided[UserSession] # None

\* the number of times s occurs in the list q
Count(q, s) == Cardinality({i \in DOMAIN q : q[i] = s})

\* C16: each eligible session id of the store is once in the list discovery
\* returns, however many entries of the store carry it: it is entered by
\* the loop or still ahead in the list, once in all, so a batch analyses a
\* session at most once.
C16_DiscoveryDeduplicates ==
    \A t \in TaskIds :
        /\ tasks[t].discovered # {} =>
               tasks[t].discovered = {s \in Range(store) : IsPrivateId(s)}
        /\ \A s \in Sessions :
               tasks[t].entries[s] + Count(tasks[t].conversations, s)
                   = IF s \in tasks[t].discovered THEN 1 ELSE 0

\* two entries of the store carry the same private session id, and a batch
\* that returned entered that session once
C16_Witness ==
    \E t \in TaskIds :
        /\ \E i, j \in DOMAIN store :
              i # j /\ store[i] = store[j] /\ tasks[t].entries[store[i]] = 1
        /\ tasks[t].pc = "returned"

\* The transcript apply_context_limit was applied to, its two lengths, and
\* what it returned.
T == call.args.contexts
maxExchangePairs == call.args.max_context_length
trimFromHead == call.args.dequeue_context_length
Returned == call.result.value

\* apply_context_limit was applied and went past its early returns
TruncationOccurred ==
    /\ Applied("apply_context_limit")
    /\ maxExchangePairs # -1
    /\ Len(T) \div 2 > maxExchangePairs

\* every entry of the transcript q is a turn
Turns(q) == \A i \in DOMAIN q : q[i].dict

HasUserTurn(q) == \E i \in DOMAIN q : q[i].role = "user"

\* the last k turns of q: none for k <= 0, all of q for k >= Len(q)
LastTurns(q, k) ==
    IF k <= 0 THEN <<>>
    ELSE IF k >= Len(q) THEN q
    ELSE [i \in 1..k |-> q[Len(q) - k + i]]

\* r is q without some number of its first turns
IsSuffix(r, q) == \E k \in 0..Len(q) : r = LastTurns(q, k)

keepCount == (maxExchangePairs - trimFromHead + 1) * 2

\* the slice apply_context_limit kept before _ensure_context_format
KeptSlice == truncated_contexts(T, maxExchangePairs, trimFromHead)

\* C17: apply_context_limit returns the transcript unchanged, the same
\* turns in the same order, whenever max_context_length is -1 or
\* len(T) // 2 <= max_context_length.
C17_WithinLimitUnchanged ==
    (/\ Applied("apply_context_limit")
     /\ \/ maxExchangePairs = -1
        \/ Len(T) \div 2 <= maxExchangePairs)
        => call.result = Ret(T)

\* a transcript of five turns that starts with a turn of the agent, under a
\* limit of two pairs, came back as it was
C17_Witness ==
    /\ Applied("apply_context_limit")
    /\ maxExchangePairs = 2
    /\ Len(T) = 5
    /\ T[1].role = "assistant"
    /\ Returned = T

\* C18: when truncation occurs on a transcript of turns and the kept slice
\* holds a turn of role user, the first turn of the result has role user;
\* when the kept slice holds no such turn, the result is the kept slice.
C18_ResultStartsOnUser ==
    (TruncationOccurred /\ Turns(T)) =>
        /\ call.result.kind = "return"
        /\ HasUserTurn(KeptSlice) =>
               Returned # <<>> /\ Returned[1].role = "user"
        /\ ~HasUserTurn(KeptSlice) => Returned = KeptSlice

\* the kept slice started with a turn of the agent and held a turn of the
\* user further on, and the result starts at that turn
C18_Witness ==
    /\ TruncationOccurred
    /\ Turns(T)
    /\ KeptSlice # <<>>
    /\ Len(KeptSlice) < Len(T)
    /\ KeptSlice[1].role = "assistant"
    /\ HasUserTurn(KeptSlice)
    /\ Len(Returned) < Len(KeptSlice)
    /\ Returned[1].role = "user"

\* C19: when truncation occurs, the slice kept before re-alignment is the
\* last keepCount = (maxExchangePairs - trimFromHead + 1) * 2 turns of the
\* transcript, and the result is a contiguous suffix of the transcript.
C19_KeepsLastKeepCount ==
    TruncationOccurred =>
        /\ KeptSlice = LastTurns(T, keepCount)
        /\ IsSuffix(Returned, T)

\* C20: when truncation occurs and keepCount is zero or negative,
\* apply_context_limit does not fail and returns the empty transcript.
C20_NothingKept ==
    (TruncationOccurred /\ keepCount <= 0) =>
        /\ call.result.kind = "return"
        /\ Returned = <<>>

\* C21 as stated: for maxExchangePairs >= 0 and trimFromHead >= 0 the result
\* of apply_context_limit fits the configured maximum,
\* len(result) // 2 <= maxExchangePairs.
C21_FitsMaximum ==
    (/\ Applied("apply_context_limit")
     /\ maxExchangePairs >= 0
     /\ trimFromHead >= 0)
        => Len(Returned) \div 2 <= maxExchangePairs

\* C21: for maxExchangePairs >= 0 and trimFromHead >= 0, a transcript that
\* is not truncated comes back within the maximum; a truncated one comes
\* back with at most keepCount turns when keepCount > 0, that is with at
\* most maxExchangePairs - trimFromHead + 1 exchanges, and with at most
\* len(T) + keepCount turns when keepCount <= 0.
C21_FitsKeepCount ==
    (/\ Applied("apply_context_limit")
     /\ maxExchangePairs >= 0
     /\ trimFromHead >= 0)
        => /\ ~TruncationOccurred => Len(Returned) \div 2 <= maxExchangePairs
           /\ (TruncationOccurred /\ keepCount > 0) =>
                  /\ Len(Returned) <= keepCount
                  /\ Len(Returned) \div 2 <= maxExchangePairs - trimFromHead + 1
           /\ (TruncationOccurred /\ keepCount <= 0) =>
                  \/ Len(Returned) <= Len(T) + keepCount
                  \/ Returned = <<>>

\* nothing is trimmed from the head, and the truncated transcript came back
\* with keepCount turns: one exchange more than the maximum
C21_Witness ==
    /\ TruncationOccurred
    /\ maxExchangePairs >= 0
    /\ trimFromHead = 0
    /\ Len(Returned) = keepCount
    /\ Len(Returned) \div 2 = maxExchangePairs + 1

\* the prompt of phase 1, and that of phase 2, has been built
DecisionPromptBuilt == run.pc \in {"decision", "topic_history", "topic", "done"}
TopicPromptBuilt == run.pc \in {"topic", "done"}

\* the output of the windower on the transcript q under the configuration
Windowed(q) ==
    apply_context_limit(q, run.max_context_length, run.dequeue_context_length).value

\* C22: the transcript listed in each oracle prompt is the output of
\* apply_context_limit, under the configured max_context_length and
\* dequeue_context_length, on the transcript fetched for that prompt.
C22_PromptIsWindowed ==
    /\ DecisionPromptBuilt => run.decision_prompt = Windowed(run.message_history)
    /\ TopicPromptBuilt => run.topic_prompt = Windowed(run.dialogue_history)

\* C27: a pipeline run issues no update_conversation and leaves the stored
\* history of the session as it found it.
C27_StoreNeverWritten ==
    run.pc # "idle" => run.updates = 0 /\ ~run.overwritten

DurationTokens == {"1min", "5min", "10min", "30min", "1hour", "3hour"}

Seconds(token) ==
    CASE token = "1min" -> 60
      [] token = "5min" -> 300
      [] token = "10min" -> 600
      [] token = "30min" -> 1800
      [] token = "1hour" -> 3600
      [] token = "3hour" -> 10800

ParserApplied == Applied("_parse_interval") \/ Applied("_parse_time_threshold")

\* C23: each of the tokens 1min, 5min, 10min, 30min, 1hour, 3hour parses to
\* 60, 300, 600, 1800, 3600, 10800 seconds, in the interval parser of the
\* scheduler and in the parser of the recency threshold alike.
C23_OneMapping ==
    (ParserApplied /\ call.args \in DurationTokens)
        => call.result = Ret(Seconds(call.args))

\* C24: a token that is none of the six never makes a parser raise: the
\* interval parser returns 600 and the threshold parser 1800; and whatever
\* the token, the seconds returned are positive.
C24_UnknownTokenDefaults ==
    ParserApplied =>
        /\ call.result.kind = "return"
        /\ call.result.value > 0
        /\ call.args \notin DurationTokens =>
               /\ Applied("_parse_interval") => call.result.value = 600
               /\ Applied("_parse_time_threshold") => call.result.value = 1800

\* the interval parser was given a token that is none of the six and
\* answered with ten minutes
C24_Witness ==
    /\ Applied("_parse_interval")
    /\ call.args = "2hour"
    /\ call.result = Ret(600)

\* tk ended the session of its last step as a skip for `reasons`, with no
\* exception leaving and nothing delivered
EndedAsSkip(tk, reasons) ==
    /\ tk.pc \notin {"raised", "cancelled"}
    /\ tk.escaped = {}
    /\ tk.sessions_to_skip[LastSession(tk)] \in reasons
    /\ LastSession(tk) \notin tk.sessions_to_send
    /\ tk.handed[LastSession(tk)] = None
    /\ LastSession(tk) \notin tk.sunk

TimerRunStarts(t) ==
    /\ tasks[t].pc # "discover"
    /\ tasks'[t].pc = "discover"
    /\ tasks'[t].origin = "timer"

\* C25: once stop() has completed (SchedulerManager.scheduler is None
\* again), no fire of the timer starts a batch.
C25_NoFireAfterStop ==
    [][scheduler = "none" => \A t \in TaskIds : ~TimerRunStarts(t)]_vars

\* terminate() completed while a batch the timer had started was in flight,
\* and that batch ended cancelled
C25_Witness ==
    /\ scheduler = "none"
    /\ jobs # <<>>
    /\ \E t \in TaskIds : tasks[t].origin = "timer" /\ tasks[t].pc = "cancelled"

\* C26: a fire of the timer that finds the batch of the job running is
\* dropped: the step that records it starts nothing, and a batch of the
\* timer starts only in a step that finds no instance of the job running,
\* never in the step in which the running batch finishes.
C26_RefusedFireIsDropped ==
    [][/\ \A t \in TaskIds :
             TimerRunStarts(t) =>
                 /\ InstanceCount(tasks'[t].job) = 0
                 /\ tasks[t].pc = "idle"
       /\ (refused' \ refused # {}) => tasks' = tasks]_vars

\* a fire was refused while the batch ran, the batch finished, and nothing
\* is running
C26_Witness ==
    /\ scheduler = "started"
    /\ \E job_id \in refused : InstanceCount(job_id) = 0
    /\ \A t \in TaskIds : tasks[t].pc = "idle"

\* C30: a batch that completed left every discovered session in the
\* send-list or in the skip-map, and at no time is a session in both.
C30_OneVerdictPerSession ==
    \A t \in TaskIds :
        LET tk == tasks[t]
        IN  /\ \A s \in Sessions :
                   ~(s \in tk.sessions_to_send /\ tk.sessions_to_skip[s] # NoReason)
            /\ tk.pc = "returned" =>
                   /\ \A s \in tk.discovered :
                          s \in tk.sessions_to_send \/ tk.sessions_to_skip[s] # NoReason
                   /\ tk.sessions_to_send \subseteq tk.discovered
                   /\ \A s \in Sessions \ tk.discovered :
                          tk.sessions_to_skip[s] = NoReason

\* a batch over two sessions completed with one in the send-list and the
\* other in the skip-map
C30_Witness ==
    \E t \in TaskIds :
        /\ tasks[t].pc = "returned"
        /\ Cardinality(tasks[t].discovered) = 2
        /\ tasks[t].sessions_to_send # {}
        /\ \E s \in tasks[t].discovered : tasks[t].sessions_to_skip[s] # NoReason

\* The gate that rejected the session of the last step of tk: the recency
\* gate, the empty transcript, the oracle's decline, or the missing topic.
Rejection(tk) ==
    CASE ReadRecent(tk) -> "recent"
      [] GateClosed(tk, "history") /\ tk.last.o.value = <<>> -> "history"
      [] Replied(tk, "decision")
             /\ ~(HasText(tk) /\ Contains(ReplyText(tk), MarkerYes)) -> "declined"
      [] Replied(tk, "topic") /\ ~HasText(tk) -> "topic"
      [] OTHER -> ""

\* the reason recorded for the session of the last step of tk
RecordedReason(tk) == tk.sessions_to_skip[LastSession(tk)]

\* C31: the reason recorded for a skipped session identifies the gate that
\* rejected it: a session rejected by the recency gate or for its empty
\* transcript is not recorded with the reason of an oracle decline, and two
\* sessions rejected by different gates are recorded with different reasons.
C31_ReasonIdentifiesGate ==
    /\ \A t \in TaskIds :
           LET tk == tasks[t]
           IN  /\ Rejection(tk) # "" => RecordedReason(tk) # NoReason
               /\ Rejection(tk) \in {"recent", "history"} =>
                      RecordedReason(tk) # SkipDeclined
    /\ \A t, u \in TaskIds :
           ( /\ Rejection(tasks[t]) # ""
             /\ Rejection(tasks[u]) # ""
             /\ Rejection(tasks[t]) # Rejection(tasks[u]) ) =>
               RecordedReason(tasks[t]) # RecordedReason(tasks[u])

\* C32: every batch that starts eventually finishes and leaves its slot idle
\* again (the slot is freed only for a batch that returned or that a
\* cancellation ended), provided every awaited call eventually returns or
\* raises.
C32_BatchTerminates ==
    \A t \in TaskIds : (tasks[t].pc # "idle") ~> (tasks[t].pc = "idle")

\* a batch of the timer analysed two sessions, one after the other, and
\* returned; the executor has not yet run its done-callback
C32_Witness ==
    \E t \in TaskIds :
        /\ tasks[t].origin = "timer"
        /\ tasks[t].pc = "returned"
        /\ Cardinality(tasks[t].visited) = 2
        /\ \A s \in tasks[t].visited : tasks[t].decided[s] # None
        /\ InstanceCount(tasks[t].job) = 1

\* C33: whatever the dialogue history, the time info and the frequency
\* info, the prompt get_analysis_prompt returns contains the literal ^&YES&^
\* and the literal ^&NO^, built from the template file or from the fallback.
C33_PromptNamesBothMarkers ==
    Applied("get_analysis_prompt") =>
        /\ call.result.kind = "return"
        /\ Contains(call.result.value, MarkerYes)
        /\ Contains(call.result.value, MarkerNoShort)

\* the template file could not be read, the dialogue history held a brace,
\* and the fallback prompt was returned with the history in it
C33_Witness ==
    /\ Applied("get_analysis_prompt")
    /\ call.args.template_file.kind = "raise"
    /\ call.args.dialogue_history = <<"{">>
    /\ call.result.kind = "return"
    /\ Contains(call.result.value, <<"\n", "{", "\n">>)
    /\ Contains(call.result.value, MarkerYes)

\* the batch in slot t calls adapter.send_by_session in this step
SinkCalled(t) == tasks[t].pc # "send" /\ tasks'[t].pc = "send"

\* the batch in slot t is resumed from its await in this step (a request to
\* cancel it only marks it)
Resumed(t) ==
    [tasks'[t] EXCEPT !.cancel = FALSE] # [tasks[t] EXCEPT !.cancel = FALSE]

\* C34: within one batch the sink is called at most once for a session: it
\* is called from the delivery step of a session it was not yet called for,
\* and once the delivery step of a session is over (the reply was empty, no
\* adapter was found, the sink returned or raised) the batch is at another
\* session or at its end, never at that session again.
C34_SinkOncePerSession ==
    [][\A t \in TaskIds :
          /\ SinkCalled(t) =>
                 /\ tasks[t].pc = "main_llm"
                 /\ tasks'[t].session_id = tasks[t].session_id
                 /\ Get(tasks[t].session_id) \notin tasks[t].sunk
          /\ ( /\ tasks[t].pc \in {"main_llm", "send"}
               /\ Resumed(t)
               /\ ~SinkCalled(t) ) =>
                 \/ Finished(tasks'[t])
                 \/ /\ tasks'[t].session_id # tasks[t].session_id
                    /\ tasks'[t].pc \notin {"main_llm", "send"}
          /\ \A s \in Sessions : tasks[t].entries[s] <= 1]_vars

\* the sink raised for the one session of a batch, and the batch returned
\* with the sink called for that session only
C34_Witness ==
    \E t \in TaskIds :
        /\ tasks[t].pc = "returned"
        /\ tasks[t].last.at = "send"
        /\ IsException(tasks[t].last.o)
        /\ tasks[t].sunk = {LastSession(tasks[t])}
        /\ tasks[t].entries[LastSession(tasks[t])] = 1

C36_PromptHasATurn ==
    run.pc = "decision" => run.decision_prompt # <<>>

\* the run is over and the owner of the store appended nothing meanwhile
AnalysedOnly == run.pc \in {"skipped", "done"} /\ run.appended = 0

\* C37: analysing a session does not change what the recency gate reads
\* for it: when the user sent nothing since, _get_last_message_time gives
\* after the run the value it gave before it.
C37_AnalysisLeavesLastActivity ==
    AnalysedOnly => _get_last_message_time(db) = run.last_message_time

\* C38: after any sequence of start, add_job, remove_job, clear_all_jobs and
\* stop, the id add_job makes is the id of no job the running scheduler
\* holds: no call of add_job finds its id taken, and a call that succeeds
\* registers its job under an id of its own.
C38_NewIdIsFresh ==
    /\ scheduler = "started" => NewJobId \notin registered
    /\ Applied("add_job") =>
           /\ ~call.args.collided
           /\ call.result.kind = "return" =>
                  /\ call.args.id \in registered
                  /\ Count(jobs, call.args.id) = 1

\* a job was added to a scheduler started after a stop: the two jobs of the
\* stopped scheduler are still in self.jobs, and the new job has the id 2
C38_Witness ==
    /\ Applied("add_job")
    /\ call.result.kind = "return"
    /\ call.args.id = 2
    /\ registered = {2}

\* C39: get_jobs_info reports exactly the jobs the running scheduler holds,
\* each once: no job removed with remove_job, no job of a scheduler that was
\* stopped; and the empty list while the scheduler is stopped.
C39_InfoIsRegisteredJobs ==
    Applied("get_jobs_info") =>
        /\ call.result.kind = "return"
        /\ Range(call.result.value) = IF scheduler = "started" THEN registered ELSE {}
        /\ \A job_id \in registered : Count(call.result.value, job_id) = 1
        /\ scheduler = "none" => call.result.value = <<>>

\* C40: apply_context_limit is idempotent for maxExchangePairs >= 0 and
\* 0 <= trimFromHead <= maxExchangePairs: applied to its own result, under
\* the same configuration, it returns that result.
C40_Idempotent ==
    (/\ Applied("apply_context_limit")
     /\ maxExchangePairs >= 0
     /\ 0 <= trimFromHead
     /\ trimFromHead <= maxExchangePairs)
        => apply_context_limit(Returned, maxExchangePairs, trimFromHead) = call.result

\* nothing is trimmed from the head: the truncated transcript still exceeds
\* the maximum, is truncated again when the function is applied to it, and
\* comes back as it is
C40_Witness ==
    /\ TruncationOccurred
    /\ maxExchangePairs >= 0
    /\ trimFromHead = 0
    /\ Len(Returned) < Len(T)
    /\ Len(Returned) \div 2 > maxExchangePairs
    /\ apply_context_limit(Returned, maxExchangePairs, trimFromHead) = Ret(Returned)

====
